---- MODULE Spec2Model ----
(***************************************************************************)
(* Model of node-client/client.js: an Express application that logs a      *)
(* browser in through Passport + Auth0, keeps the resulting user object in *)
(* the session and calls one protected downstream API with the stored      *)
(* access token.                                                           *)
(*                                                                         *)
(* JavaScript values are tagged records [t, v]; the text of a string is a  *)
(* sequence of pieces, so that a template literal is a concatenation.      *)
(* Objects are functions from property names to values.                    *)
(*                                                                         *)
(* Granularity: the session middleware, passport.session() and the         *)
(* synchronous part of a route handler form one step.  Every asynchronous  *)
(* point that is visible in client.js is a step of its own: the completion *)
(* callback of req.logout, the outcome of passport.authenticate on         *)
(* /callback, and the two awaits of /call-api.                             *)
(***************************************************************************)
EXTENDS Naturals, Sequences, FiniteSets

VARIABLES
    env,           \* process.env after dotenv, restricted to the six names
    proc,          \* "starting" | "exited" | "listening" | "crashed"
    exitCode,      \* exit code of the process, 0 while it runs
    listenerBound, \* TRUE once app.listen has bound the port
    sessionStore,  \* session -> req.session.passport.user as stored
    requests,      \* log of the requests received, in order of arrival
    lastPayload,   \* history: payload of the last successful callback
    lastEvent      \* history: "none" | "callback" | "logout" per session

vars == <<env, proc, exitCode, listenerBound, sessionStore, requests,
          lastPayload, lastEvent>>

-----------------------------------------------------------------------------
(* Bounds *)

NumSessions == 2
MaxRequests == 3

Sessions == 1..NumSessions

-----------------------------------------------------------------------------
(* JavaScript values *)

Undef == [t |-> "undefined", v |-> <<>>]
Str(pieces) == [t |-> "string", v |-> pieces]
Num(digits) == [t |-> "number", v |-> <<digits>>]
Opaque(name) == [t |-> "object", v |-> <<name>>]

IsTagged(x) == DOMAIN x = {"t", "v"}

\* JavaScript truthiness: undefined, "" and 0 are falsy, objects are truthy.
Truthy(x) ==
    IF IsTagged(x)
    THEN /\ x.t # "undefined"
         /\ ~(x.t = "string" /\ x.v = <<>>)
         /\ ~(x.t = "number" /\ x.v = <<"0">>)
    ELSE TRUE

\* a && b
AndAlso(a, b) == IF Truthy(a) THEN b ELSE a

\* a || b
OrElse(a, b) == IF Truthy(a) THEN a ELSE b

\* obj.name; a property that is not there reads as undefined, and a string
\* has no properties but its own built-in ones.
Prop(obj, name) ==
    IF IsTagged(obj) THEN Undef
    ELSE IF name \in DOMAIN obj THEN obj[name] ELSE Undef

\* `${x}` inside a template literal
Render(x) == IF x.t = "undefined" THEN <<"undefined">> ELSE x.v

\* JSON.parse(JSON.stringify(obj)) for an object of JSON-safe values:
\* properties whose value is undefined are dropped.
JsonRoundTrip(obj) ==
    IF IsTagged(obj) THEN obj
    ELSE [k \in {n \in DOMAIN obj : obj[n] # Undef} |-> obj[k]]

\* JSON.stringify(x, null, 2) of an opaque value: its text
Stringify(x) == IF x.t = "undefined" THEN <<"undefined">> ELSE x.v

\* needle occurs in hay as a contiguous run of pieces
Contains(hay, needle) ==
    \E i \in 1..(Len(hay) + 1) :
        /\ i + Len(needle) - 1 <= Len(hay)
        /\ SubSeq(hay, i, i + Len(needle) - 1) = needle

-----------------------------------------------------------------------------
(* Environment and startup *)

EnvNames == {"AUTH0_DOMAIN", "AUTH0_CLIENT_ID", "AUTH0_CLIENT_SECRET",
             "AUTH0_CALLBACK_URL", "API_BASE_URL", "PORT"}

Configured ==
    [n \in EnvNames |->
        CASE n = "AUTH0_DOMAIN" -> Str(<<"tenant.auth0.com">>)
          [] n = "AUTH0_CLIENT_ID" -> Str(<<"client-id">>)
          [] n = "AUTH0_CLIENT_SECRET" -> Str(<<"client-secret">>)
          [] n = "AUTH0_CALLBACK_URL" -> Str(<<"http://localhost:3000/callback">>)
          [] n = "API_BASE_URL" -> Str(<<"http://localhost:8080">>)
          [] n = "PORT" -> Str(<<"3000">>)]

\* A variable is absent, set to the empty string, or set.
EnvStates == {e \in [EnvNames -> {"absent", "empty", "set"}] : TRUE}

EnvOf(e) ==
    [n \in EnvNames |->
        CASE e[n] = "absent" -> Undef
          [] e[n] = "empty" -> Str(<<>>)
          [] e[n] = "set" -> Configured[n]]

\* Variant: the check forgets PORT.
MissingEnv_noPort ==
    \/ ~Truthy(env["AUTH0_DOMAIN"])
    \/ ~Truthy(env["AUTH0_CLIENT_ID"])
    \/ ~Truthy(env["AUTH0_CLIENT_SECRET"])
    \/ ~Truthy(env["AUTH0_CALLBACK_URL"])
    \/ ~Truthy(env["API_BASE_URL"])

MissingEnv ==
    \/ ~Truthy(env["AUTH0_DOMAIN"])
    \/ ~Truthy(env["AUTH0_CLIENT_ID"])
    \/ ~Truthy(env["AUTH0_CLIENT_SECRET"])
    \/ ~Truthy(env["AUTH0_CALLBACK_URL"])
    \/ ~Truthy(env["API_BASE_URL"])
    \/ ~Truthy(env["PORT"])

Init ==
    /\ env \in {EnvOf(e) : e \in EnvStates}
    /\ proc = "starting"
    /\ exitCode = 0
    /\ listenerBound = FALSE
    /\ sessionStore = [s \in Sessions |-> Undef]
    /\ requests = <<>>
    /\ lastPayload = [s \in Sessions |-> Undef]
    /\ lastEvent = [s \in Sessions |-> "none"]

\* process.exit(1) when a required variable is missing
StartupExit ==
    /\ proc = "starting"
    /\ MissingEnv
    /\ proc' = "exited"
    /\ exitCode' = 1
    /\ UNCHANGED <<env, listenerBound, sessionStore, requests, lastPayload,
                   lastEvent>>

\* the module runs to its end: app.listen(PORT)
Listen ==
    /\ proc = "starting"
    /\ ~MissingEnv
    /\ proc' = "listening"
    /\ listenerBound' = TRUE
    /\ UNCHANGED <<env, exitCode, sessionStore, requests, lastPayload,
                   lastEvent>>

-----------------------------------------------------------------------------
(* Responses and the request log *)

Send(status, body) == [status |-> status, location |-> <<>>, body |-> body]

\* res.redirect(url): status 302 and a Location header
Redirect(url) == [status |-> 302, location |-> url, body |-> <<>>]

isAuthenticated(user) == Truthy(user)

serializeUser(user) == user

deserializeUser(user) == user

\* passport.session(): req.user from the user kept in the session
LoadUser(s) ==
    IF Truthy(sessionStore[s]) THEN deserializeUser(sessionStore[s]) ELSE Undef

\* A request as the session and passport middleware hand it to the route:
\* sessionUser is req.session.passport.user as loaded, user is req.user.
\* gate is the decision of ensureLoggedIn ("none" on an open route), handler
\* tells whether the route's own handler ran, fetches are the outbound
\* requests made, downstream the response fetch resolved with, error the
\* error caught.  seen and afterLogout are history: the last callback
\* payload and whether a logout was the last identity event of the session
\* when the request arrived.
NewRequest(s, route) ==
    [session |-> s, route |-> route, phase |-> "done",
     sessionUser |-> sessionStore[s], user |-> LoadUser(s),
     gate |-> "none", handler |-> FALSE, fetches |-> <<>>,
     responses |-> <<>>, downstream |-> Undef, error |-> Undef,
     seen |-> lastPayload[s], afterLogout |-> (lastEvent[s] = "logout")]

Respond(req, res) == [req EXCEPT !.responses = Append(@, res)]

CanReceive == proc = "listening" /\ Len(requests) < MaxRequests

InFlight(phase) == {r \in 1..Len(requests) : requests[r].phase = phase}

-----------------------------------------------------------------------------
(* Helpers of client.js *)

\* Variant: the gate lets every request through.
ensureLoggedIn_open(user) == "next"

ensureLoggedIn(user) == IF isAuthenticated(user) THEN "next" ELSE "redirect"

\* Variant: the two status texts are swapped.
homePage_swapped(user) ==
    LET loggedIn == isAuthenticated(user)
    IN  Send(200, <<"<h1>Home</h1>", "<p>Status: ">>
                  \o (IF loggedIn THEN <<"Logged Out">> ELSE <<"Logged In">>)
                  \o <<"</p>", "<ul>", "<li><a href=\"/login\">Login</a></li>",
                       "<li><a href=\"/logout\">Logout</a></li>",
                       "<li><a href=\"/profile\">Profile</a></li>",
                       "<li><a href=\"/call-api\">Call Sprint Boot /secure-data</a></li>",
                       "</ul>">>)

homePage(user) ==
    LET loggedIn == isAuthenticated(user)
    IN  Send(200, <<"<h1>Home</h1>", "<p>Status: ">>
                  \o (IF loggedIn THEN <<"Logged In">> ELSE <<"Logged Out">>)
                  \o <<"</p>", "<ul>", "<li><a href=\"/login\">Login</a></li>",
                       "<li><a href=\"/logout\">Logout</a></li>",
                       "<li><a href=\"/profile\">Profile</a></li>",
                       "<li><a href=\"/call-api\">Call Sprint Boot /secure-data</a></li>",
                       "</ul>">>)

\* The gate in front of a protected handler: ran is the request after the
\* handler's synchronous work.
Gated(req, ran) ==
    IF ensureLoggedIn(req.user) = "next"
    THEN [ran EXCEPT !.gate = "next", !.handler = TRUE]
    ELSE Respond([req EXCEPT !.gate = "redirect"], Redirect(<<"/login">>))

-----------------------------------------------------------------------------
(* Routes *)

\* GET /
GetHome(s) ==
    /\ CanReceive
    /\ requests' = Append(requests,
          LET req == NewRequest(s, "/")
          IN  Respond([req EXCEPT !.handler = TRUE], homePage(req.user)))
    /\ UNCHANGED <<env, proc, exitCode, listenerBound, sessionStore,
                   lastPayload, lastEvent>>

\* GET /login: passport.authenticate redirects to the provider
GetLogin(s) ==
    /\ CanReceive
    /\ requests' = Append(requests,
          LET req == NewRequest(s, "/login")
          IN  Respond([req EXCEPT !.handler = TRUE],
                      Redirect(<<"https://">> \o env["AUTH0_DOMAIN"].v
                               \o <<"/authorize">>)))
    /\ UNCHANGED <<env, proc, exitCode, listenerBound, sessionStore,
                   lastPayload, lastEvent>>

-----------------------------------------------------------------------------
(* Login callback *)

SliceLimit == 40

\* An ID token longer than the 40 characters /profile shows of it; the
\* pieces of a token are its characters.
LongIdToken == <<"e", "y", "J">> \o [i \in 1..SliceLimit |-> "x"]

\* What the provider hands to the verify callback on a successful login:
\* accessToken, refreshToken, the token response (extraParams) and profile.
Payloads ==
    { [accessToken |-> Str(<<"a", "t", "1">>),
       refreshToken |-> Str(<<"r", "t", "1">>),
       extraParams |-> [id_token |-> Str(LongIdToken),
                        token_type |-> Str(<<"Bearer">>),
                        expires_in |-> Num("86400")],
       profile |-> Opaque("alice")],
      [accessToken |-> Str(<<"a", "t", "2">>),
       refreshToken |-> Undef,
       extraParams |-> [id_token |-> Str(<<"i", "d", "2">>),
                        token_type |-> Str(<<"Bearer">>),
                        expires_in |-> Num("3600")],
       profile |-> Opaque("bob")] }

\* Variant: the refresh token is stored with the rest.
verify_keepsRefresh(accessToken, refreshToken, extraParams, profile) ==
    [profile |-> profile,
     accessToken |-> accessToken,
     refreshToken |-> refreshToken,
     idToken |-> AndAlso(extraParams, Prop(extraParams, "id_token")),
     tokenType |-> AndAlso(extraParams, Prop(extraParams, "token_type")),
     expiresIn |-> AndAlso(extraParams, Prop(extraParams, "expires_in"))]

\* The verify callback of the Auth0 strategy
verify(accessToken, refreshToken, extraParams, profile) ==
    [profile |-> profile,
     accessToken |-> accessToken,
     idToken |-> AndAlso(extraParams, Prop(extraParams, "id_token")),
     tokenType |-> AndAlso(extraParams, Prop(extraParams, "token_type")),
     expiresIn |-> AndAlso(extraParams, Prop(extraParams, "expires_in"))]

\* What the session keeps of a user: serializeUser, then the store's JSON
SessionUserOf(user) == JsonRoundTrip(serializeUser(user))

\* Variant: a failed login is sent back to the login route.
FailureRedirect_login == <<"/login">>

FailureRedirect == <<"/">>

\* GET /callback: passport.authenticate starts the exchange with the provider
GetCallback(s) ==
    /\ CanReceive
    /\ requests' = Append(requests,
          [NewRequest(s, "/callback") EXCEPT !.phase = "authenticating"])
    /\ UNCHANGED <<env, proc, exitCode, listenerBound, sessionStore,
                   lastPayload, lastEvent>>

\* The provider authenticated the user: verify, req.logIn, the route handler
CallbackSuccess(r, p) ==
    /\ proc = "listening"
    /\ requests[r].phase = "authenticating"
    /\ LET user == verify(p.accessToken, p.refreshToken, p.extraParams,
                          p.profile)
           s == requests[r].session
       IN  /\ sessionStore' = [sessionStore EXCEPT ![s] = SessionUserOf(user)]
           /\ requests' = [requests EXCEPT ![r] =
                 Respond([@ EXCEPT !.phase = "done", !.user = user,
                                   !.handler = TRUE, !.seen = p],
                         Redirect(<<"/profile">>))]
           /\ lastPayload' = [lastPayload EXCEPT ![s] = p]
           /\ lastEvent' = [lastEvent EXCEPT ![s] = "callback"]
    /\ UNCHANGED <<env, proc, exitCode, listenerBound>>

\* The provider denied or reported an error: failureRedirect
CallbackFailure(r) ==
    /\ proc = "listening"
    /\ requests[r].phase = "authenticating"
    /\ requests' = [requests EXCEPT ![r] =
          Respond([@ EXCEPT !.phase = "done"], Redirect(FailureRedirect))]
    /\ UNCHANGED <<env, proc, exitCode, listenerBound, sessionStore,
                   lastPayload, lastEvent>>

-----------------------------------------------------------------------------
(* Logout *)

\* `https://${AUTH0_DOMAIN}/v2/logout`: a template literal, hence a string
logoutURL == Str(<<"https://">> \o Render(env["AUTH0_DOMAIN"])
                 \o <<"/v2/logout">>)

\* What the handler itself sends, after req.logout has returned
LogoutHandlerRedirect == <<"/">>

\* Variant: logout leaves the session's user in place.
LoggedOutUser_kept(sessionUser) == sessionUser

\* req.logout: what is left of the session's user
LoggedOutUser(sessionUser) == Undef

\* GET /logout: req.logout (with a completion callback, as passport 0.6 and
\* later take it) clears req.user and the session's user at once and calls
\* back once the session is saved; the handler goes on and redirects.
GetLogout(s) ==
    /\ CanReceive
    /\ sessionStore' = [sessionStore EXCEPT ![s] = LoggedOutUser(@)]
    /\ requests' = Append(requests,
          LET req == NewRequest(s, "/logout")
          IN  Respond([req EXCEPT !.phase = "logoutPending",
                                  !.user = LoggedOutUser(req.sessionUser),
                                  !.handler = TRUE],
                      Redirect(LogoutHandlerRedirect)))
    /\ lastEvent' = [lastEvent EXCEPT ![s] = "logout"]
    /\ UNCHANGED <<env, proc, exitCode, listenerBound, lastPayload>>

\* The callback given to req.logout.  logoutURL.searchParams is read off a
\* string; calling append on undefined throws a TypeError that nothing
\* catches, which ends the process with exit code 1.  Were searchParams
\* there, the callback would send a second redirect.
LogoutCallback(r) ==
    /\ proc = "listening"
    /\ requests[r].phase = "logoutPending"
    /\ LET searchParams == Prop(logoutURL, "searchParams")
       IN  IF searchParams = Undef
           THEN /\ proc' = "crashed"
                /\ exitCode' = 1
                /\ UNCHANGED requests
           ELSE /\ requests' = [requests EXCEPT ![r] =
                      Respond([@ EXCEPT !.phase = "done"],
                              Redirect(Render(logoutURL)))]
                /\ UNCHANGED <<proc, exitCode>>
    /\ UNCHANGED <<env, listenerBound, sessionStore, lastPayload, lastEvent>>

-----------------------------------------------------------------------------
(* Protected routes *)

Min(a, b) == IF a < b THEN a ELSE b

\* token ? token.slice(0, 40) + '...' : 'none'
TokenPreview(token) ==
    IF Truthy(token)
    THEN SubSeq(token.v, 1, Min(SliceLimit, Len(token.v))) \o <<"...">>
    ELSE <<"none">>

\* GET /profile
GetProfile(s) ==
    /\ CanReceive
    /\ requests' = Append(requests,
          LET req == NewRequest(s, "/profile")
              user == OrElse(req.user, [x \in {} |-> Undef])
              profile == Prop(user, "profile")
              idToken == Prop(user, "idToken")
              accessToken == Prop(user, "accessToken")
          IN  Gated(req,
                Respond(req,
                  Send(200, <<"<h1>Profile</h1>", "<pre>">>
                            \o Stringify(profile)
                            \o <<"</pre>", "<h3>Tokens</h3>",
                                 "<p>ID Token (JWT): ">>
                            \o TokenPreview(idToken)
                            \o <<"</p>", "<p>Access Token: ">>
                            \o TokenPreview(accessToken)
                            \o <<"</p>",
                                 "<p><a href=\"/call-api\">Call Protected Spring API</a></p>",
                                 "<p><a href=\"/\">Home</a></p>">>))))
    /\ UNCHANGED <<env, proc, exitCode, listenerBound, sessionStore,
                   lastPayload, lastEvent>>

DownstreamResponses ==
    { [status |-> Num("200"), text |-> Str(<<"secure data">>)],
      [status |-> Num("401"), text |-> Str(<<"Unauthorized">>)] }

FetchErrors == { Str(<<"fetch failed">>) }

BodyErrors == { Str(<<"terminated">>) }

\* Variant: the header carries the bare token.
OutboundRequest_rawToken(accessToken) ==
    [url |-> Render(OrElse(env["API_BASE_URL"],
                           Str(<<"http://localhost:8080">>)))
             \o <<"/secure-data">>,
     authorization |-> Render(accessToken)]

\* The request fetch(url, { headers: { Authorization } }) sends
OutboundRequest(accessToken) ==
    [url |-> Render(OrElse(env["API_BASE_URL"],
                           Str(<<"http://localhost:8080">>)))
             \o <<"/secure-data">>,
     authorization |-> <<"Bearer ">> \o Render(accessToken)]

\* The page of a downstream response
ApiResponsePage(response) ==
    Send(200, <<"<h2>Spring Boot API Response</h2>", "<pre>">>
              \o Render(response.text)
              \o <<"</pre>", "<p>Status: ">> \o Render(response.status)
              \o <<"</p>", "<p><a href=\"/\">Home</a></p>">>)

\* Variant: the catch block forgets res.status(500).
ApiErrorPage_ok(error) ==
    Send(200, <<"<h2>Error Calling Protected API</h2>", "<p>">>
              \o Render(error)
              \o <<"</p>", "<p><a href=\"/\">Home</a></p>">>)

\* The page of the catch block
ApiErrorPage(error) ==
    Send(500, <<"<h2>Error Calling Protected API</h2>", "<p>">>
              \o Render(error)
              \o <<"</p>", "<p><a href=\"/\">Home</a></p>">>)

\* GET /call-api up to its first await
GetCallApi(s) ==
    /\ CanReceive
    /\ requests' = Append(requests,
          LET req == NewRequest(s, "/call-api")
              accessToken == AndAlso(req.user, Prop(req.user, "accessToken"))
          IN  Gated(req,
                IF ~Truthy(accessToken)
                THEN Respond(req,
                       Send(401, <<"No access token. Please log in again.">>))
                ELSE [req EXCEPT !.phase = "awaitFetch",
                         !.fetches = Append(@, OutboundRequest(accessToken))]))
    /\ UNCHANGED <<env, proc, exitCode, listenerBound, sessionStore,
                   lastPayload, lastEvent>>

\* fetch resolves with a response, whatever its status
FetchResolve(r, d) ==
    /\ proc = "listening"
    /\ requests[r].phase = "awaitFetch"
    /\ requests' = [requests EXCEPT ![r] =
          [@ EXCEPT !.phase = "awaitText", !.downstream = d]]
    /\ UNCHANGED <<env, proc, exitCode, listenerBound, sessionStore,
                   lastPayload, lastEvent>>

\* fetch rejects: the catch block answers
FetchReject(r, e) ==
    /\ proc = "listening"
    /\ requests[r].phase = "awaitFetch"
    /\ requests' = [requests EXCEPT ![r] =
          Respond([@ EXCEPT !.phase = "done", !.error = e],
                  ApiErrorPage(e))]
    /\ UNCHANGED <<env, proc, exitCode, listenerBound, sessionStore,
                   lastPayload, lastEvent>>

\* response.text() resolves: the page is sent
TextResolve(r) ==
    /\ proc = "listening"
    /\ requests[r].phase = "awaitText"
    /\ requests' = [requests EXCEPT ![r] =
          Respond([@ EXCEPT !.phase = "done"],
                  ApiResponsePage(requests[r].downstream))]
    /\ UNCHANGED <<env, proc, exitCode, listenerBound, sessionStore,
                   lastPayload, lastEvent>>

\* response.text() rejects: the catch block answers
TextReject(r, e) ==
    /\ proc = "listening"
    /\ requests[r].phase = "awaitText"
    /\ requests' = [requests EXCEPT ![r] =
          Respond([@ EXCEPT !.phase = "done", !.error = e],
                  ApiErrorPage(e))]
    /\ UNCHANGED <<env, proc, exitCode, listenerBound, sessionStore,
                   lastPayload, lastEvent>>

-----------------------------------------------------------------------------
Next ==
    \/ StartupExit
    \/ Listen
    \/ \E s \in Sessions : GetHome(s)
    \/ \E s \in Sessions : GetLogin(s)
    \/ \E s \in Sessions : GetCallback(s)
    \/ \E r \in InFlight("authenticating"), p \in Payloads :
          CallbackSuccess(r, p)
    \/ \E r \in InFlight("authenticating") : CallbackFailure(r)
    \/ \E s \in Sessions : GetLogout(s)
    \/ \E r \in InFlight("logoutPending") : LogoutCallback(r)
    \/ \E s \in Sessions : GetProfile(s)
    \/ \E s \in Sessions : GetCallApi(s)
    \/ \E r \in InFlight("awaitFetch"), d \in DownstreamResponses :
          FetchResolve(r, d)
    \/ \E r \in InFlight("awaitFetch"), e \in FetchErrors : FetchReject(r, e)
    \/ \E r \in InFlight("awaitText") : TextResolve(r)
    \/ \E r \in InFlight("awaitText"), e \in BodyErrors : TextReject(r, e)


Spec == Init /\ [][Next]_vars

-----------------------------------------------------------------------------
(* Properties *)

Protected == {"/profile", "/call-api"}

Reqs == {requests[r] : r \in 1..Len(requests)}

\* C1: a request to a protected route passes ensureLoggedIn to its handler
\* if and only if its session carries a user; without one the only response
\* is a redirect to /login and the handler does not run (no page, no fetch).
C1_GatePassesIffIdentity ==
    \A q \in Reqs :
        q.route \in Protected =>
            /\ (q.gate = "next") <=> Truthy(q.sessionUser)
            /\ q.handler <=> Truthy(q.sessionUser)
            /\ ~Truthy(q.sessionUser) =>
                   /\ q.gate = "redirect"
                   /\ q.responses = <<Redirect(<<"/login">>)>>
                   /\ q.fetches = <<>>
                   /\ q.phase = "done"

C1_Witness ==
    /\ \E q \in Reqs : q.route \in Protected /\ q.gate = "next" /\ q.handler
    /\ \E q \in Reqs : /\ q.route \in Protected
                       /\ q.responses = <<Redirect(<<"/login">>)>>

\* The identity a callback payload stands for: its five values
IdentityOf(p) ==
    [profile |-> p.profile,
     accessToken |-> p.accessToken,
     idToken |-> p.extraParams.id_token,
     tokenType |-> p.extraParams.token_type,
     expiresIn |-> p.extraParams.expires_in]

FailedCallbackStep(r) ==
    /\ r <= Len(requests)
    /\ requests[r].route = "/callback"
    /\ requests[r].phase = "authenticating"
    /\ requests'[r].phase = "done"
    /\ ~requests'[r].handler

\* C3: a failed callback answers with one redirect to /, creates no
\* identity and leaves the session store as it was; the request is over.
C3_FailureRedirectsHome ==
    [][\A r \in 1..MaxRequests :
          FailedCallbackStep(r) =>
              /\ requests'[r].responses = <<Redirect(<<"/">>)>>
              /\ sessionStore' = sessionStore
              /\ requests'[r].user = requests[r].user
              /\ requests'[r].fetches = <<>>]_vars

C3_Witness ==
    \E q \in Reqs :
        /\ q.route = "/callback" /\ q.phase = "done" /\ ~q.handler
        /\ q.responses = <<Redirect(<<"/">>)>>
        /\ Truthy(q.sessionUser)
        /\ sessionStore[q.session] = q.sessionUser

HoldsAccessToken(q) == Truthy(Prop(q.sessionUser, "accessToken"))

ResponseReceived(q) ==
    q.phase = "done" /\ q.downstream # Undef /\ q.error = Undef

\* C4: a /call-api request whose session holds an access token makes
\* exactly one outbound request, with Authorization "Bearer " + that token;
\* when a response was received, the page holds its body and status code.
C4_OneBearerRequest ==
    \A q \in Reqs :
        (q.route = "/call-api" /\ HoldsAccessToken(q)) =>
            /\ Len(q.fetches) = 1
            /\ q.fetches[1].authorization
                   = <<"Bearer ">> \o q.sessionUser.accessToken.v
            /\ ResponseReceived(q) =>
                   /\ Len(q.responses) = 1
                   /\ Contains(q.responses[1].body,
                               <<"<pre>">> \o q.downstream.text.v
                               \o <<"</pre>">>)
                   /\ Contains(q.responses[1].body,
                               <<"<p>Status: ">> \o q.downstream.status.v
                               \o <<"</p>">>)

C4_Witness ==
    \E q \in Reqs :
        /\ q.route = "/call-api" /\ HoldsAccessToken(q)
        /\ ResponseReceived(q)
        /\ q.downstream.status = Num("401")
        /\ q.fetches[1].authorization = <<"Bearer ", "a", "t", "2">>

TransportFailed(q) == q.route = "/call-api" /\ q.error # Undef

HttpError(q) ==
    /\ q.route = "/call-api"
    /\ ResponseReceived(q)
    /\ q.downstream.status # Num("200")

IsErrorPage(q, message) ==
    /\ Len(q.responses) = 1
    /\ q.responses[1].status = 500
    /\ Contains(q.responses[1].body, <<"<p>">> \o message \o <<"</p>">>)

\* C5 as stated: a transport failure and an HTTP error of the downstream
\* endpoint both end in a 500 page with the error message.
C5_Original ==
    \A q \in Reqs :
        /\ TransportFailed(q) => IsErrorPage(q, q.error.v)
        /\ HttpError(q) => IsErrorPage(q, q.downstream.text.v)

\* C5 (amended): a transport failure (fetch or the body read rejects) ends
\* in a 500 page with the error message; a downstream response with an
\* error status is rendered as the normal page, sent with status 200.
C5_TransportFailureIs500 ==
    \A q \in Reqs :
        /\ TransportFailed(q) => IsErrorPage(q, q.error.v)
        /\ HttpError(q) =>
               /\ Len(q.responses) = 1
               /\ q.responses[1].status = 200
               /\ Contains(q.responses[1].body,
                           <<"<p>Status: ">> \o q.downstream.status.v
                           \o <<"</p>">>)

C5_Witness ==
    /\ \E q \in Reqs : TransportFailed(q) /\ q.downstream = Undef
    /\ \E q \in Reqs : TransportFailed(q) /\ q.downstream # Undef

AnyAbsent == \E n \in EnvNames : env[n] = Undef

AllPresent == \A n \in EnvNames : env[n] # Undef

\* C6: with one of the six settings absent the process, once its startup
\* has run, has exited with a non-zero code, and it never binds a listener;
\* a listener is bound only when all six are present.
C6_FailFast ==
    /\ AnyAbsent => ~listenerBound
    /\ (AnyAbsent /\ proc # "starting") => (proc = "exited" /\ exitCode # 0)
    /\ proc = "exited" => ~listenerBound
    /\ listenerBound => AllPresent

C6_Witness ==
    /\ proc = "exited"
    /\ exitCode = 1
    /\ env["PORT"] = Undef
    /\ \A n \in EnvNames \ {"PORT"} : Truthy(env[n])

\* C7: once /logout has been handled the session has no user, and every
\* request that arrives before the next successful callback is redirected
\* to /login on a protected route and told "Logged Out" on /.
C7_LogoutClearsIdentity ==
    /\ \A s \in Sessions :
           lastEvent[s] = "logout" => ~Truthy(sessionStore[s])
    /\ \A q \in Reqs :
           q.afterLogout =>
               /\ q.route \in Protected =>
                      /\ q.responses = <<Redirect(<<"/login">>)>>
                      /\ ~q.handler
               /\ q.route = "/" =>
                      /\ Len(q.responses) = 1
                      /\ Contains(q.responses[1].body, <<"Logged Out">>)

C7_Witness ==
    \E i, j \in 1..Len(requests) :
        /\ i < j
        /\ requests[i].route = "/logout"
        /\ Truthy(requests[i].sessionUser)
        /\ requests[j].session = requests[i].session
        /\ requests[j].afterLogout
        /\ requests[j].route \in Protected
        /\ requests[j].responses = <<Redirect(<<"/login">>)>>

\* C8 as stated: the response to GET /logout is a redirect to the
\* provider's logout endpoint, not to a local route.
C8_LogoutRedirectsToProvider ==
    \A q \in Reqs :
        (q.route = "/logout" /\ q.responses # <<>>) =>
            /\ q.responses[1].status = 302
            /\ Contains(q.responses[1].location,
                        <<"https://">> \o env["AUTH0_DOMAIN"].v
                        \o <<"/v2/logout">>)

\* C9: GET / is not gated and answers 200; its page says "Logged In" exactly
\* when the session carries a user, which is when the gate would let the
\* same request through.
C9_HomeReportsStatus ==
    \A q \in Reqs :
        q.route = "/" =>
            /\ q.gate = "none"
            /\ q.handler
            /\ Len(q.responses) = 1
            /\ q.responses[1].status = 200
            /\ Contains(q.responses[1].body, <<"Logged In">>)
                   <=> Truthy(q.sessionUser)
            /\ Contains(q.responses[1].body, <<"Logged Out">>)
                   <=> ~Truthy(q.sessionUser)
            /\ Contains(q.responses[1].body, <<"Logged In">>)
                   <=> (ensureLoggedIn(q.user) = "next")

C9_Witness ==
    /\ \E q \in Reqs : q.route = "/" /\ Truthy(q.sessionUser)
    /\ \E q \in Reqs : q.route = "/" /\ ~Truthy(q.sessionUser)

\* C10 as stated: every request gets exactly one response (never two, and
\* one once its handling is over) and no callback throws an error that
\* stops the process.
C10_ExactlyOneResponse ==
    /\ proc # "crashed"
    /\ \A q \in Reqs :
           /\ Len(q.responses) <= 1
           /\ q.phase = "done" => Len(q.responses) = 1

====
